---- MODULE Spec2Model ----
(***************************************************************************)
(* Model of odevalidator: Field (one configured field rule, with its       *)
(* optional constraints and the previous_value of the increment check),    *)
(* TestCase (the ordered field_list) and TestCase.validate_queue (the      *)
(* drain-and-validate loop over a queue of serialized records).            *)
(*                                                                         *)
(* Python values are tagged records of one shape, so that values of        *)
(* different Python types can be compared:                                 *)
(*   t = "none" | "int" | "str" | "dict",  n the int,  s the str,           *)
(*   d the dict (a function from keys to values).                          *)
(* An operation that can raise returns a record whose exc field names the  *)
(* exception ("" when it returned normally).                               *)
(***************************************************************************)
EXTENDS Integers, Sequences, FiniteSets, TLC

VARIABLES
    field_list,   \* TestCase.field_list: the Fields, each with its attributes
    msg_queue,    \* the queue handed to validate_queue: serialized records
    pc,           \* "idle", or "loop" while validate_queue is running
    results,      \* validate_queue's local list of record reports
    taken,        \* the messages msg_queue.get() has returned in the running
                  \* (or last) validate_queue call, in order
    ret,          \* outcome of the most recent validate_queue call
    calls         \* log of the direct Field.validate calls made so far

vars == <<field_list, msg_queue, pc, results, taken, ret, calls>>

\* Longest queue the caller builds before a validate_queue call.
MaxQueue == 3

\* Most direct Field.validate calls made on one Field.
MaxCalls == 4

-----------------------------------------------------------------------------
(* Python values *)

NoneV == [t |-> "none", n |-> 0, s |-> "", d |-> <<>>]
IntV(i) == [t |-> "int", n |-> i, s |-> "", d |-> <<>>]
StrV(x) == [t |-> "str", n |-> 0, s |-> x, d |-> <<>>]
DictV(f) == [t |-> "dict", n |-> 0, s |-> "", d |-> f]

\* Normal return of v, and the raising of exception e.
Ok(v) == [exc |-> "", val |-> v]
Raise(e) == [exc |-> e, val |-> NoneV]

Digit(i) ==
    CASE i = 0 -> "0" [] i = 1 -> "1" [] i = 2 -> "2" [] i = 3 -> "3"
      [] i = 4 -> "4" [] i = 5 -> "5" [] i = 6 -> "6" [] i = 7 -> "7"
      [] i = 8 -> "8" [] i = 9 -> "9"

RECURSIVE StrNat(_)
StrNat(i) == IF i < 10 THEN Digit(i) ELSE StrNat(i \div 10) \o Digit(i % 10)

\* str(i) and '%d' % i of an int: its decimal numeral.
StrInt(i) == IF i < 0 THEN "-" \o StrNat(0 - i) ELSE StrNat(i)

\* str(v) of a field value (an int or a str; a str is its own string form).
PyStr(v) ==
    CASE v.t = "str" -> v.s
      [] v.t = "int" -> StrInt(v.n)
      [] v.t = "none" -> "None"

\* The integers whose numerals the modelled records and options can hold.
DecRange == 0..20

\* Decimal(v): an int converts exactly; a str converts when it is a numeral
\* and raises decimal.InvalidOperation when it is not.
Decimal(v) ==
    CASE v.t = "int" -> [exc |-> "", n |-> v.n]
      [] v.t = "str" ->
            IF \E i \in DecRange : StrInt(i) = v.s
            THEN [exc |-> "", n |-> CHOOSE i \in DecRange : StrInt(i) = v.s]
            ELSE [exc |-> "InvalidOperation", n |-> 0]
      [] OTHER -> [exc |-> "TypeError", n |-> 0]

\* Strings dateutil.parser.parse accepts, among those the records carry.
ParseableTimestamps == {"2023-01-15T10:00:00Z", "6"}

\* dateutil.parser.parse(v): raises TypeError on a non-string and ParserError
\* on a string that holds no date; err is str(e).
DateutilParse(v) ==
    IF v.t # "str"
    THEN [exc |-> "TypeError",
          err |-> "Parser must be a string or character stream, not int"]
    ELSE IF v.s \in ParseableTimestamps
    THEN [exc |-> "", err |-> ""]
    ELSE [exc |-> "ParserError", err |-> "Unknown string format: " \o v.s]

-----------------------------------------------------------------------------
(* Field *)

TYPE_DECIMAL == "decimal"
TYPE_ENUM == "enum"
TYPE_TIMESTAMP == "timestamp"
TYPE_STRING == "string"

\* field.get(key) is not None, for a configuration section `field`.
HasOption(field, key) == key \in DOMAIN field

\* Field.__init__ on a section that has Path and Type. attrs is the set of
\* the optional attributes the instance has (what hasattr answers); an
\* attribute outside attrs holds a placeholder that is never read. The path
\* is kept as the list of keys that path.split(".") yields.
FieldInit(field) ==
    [path |-> field.Path,
     type |-> field.Type,
     attrs |-> {a \in {"upper_limit", "lower_limit", "values", "increment",
                       "equals_value"} :
                  \/ a = "upper_limit" /\ HasOption(field, "UpperLimit")
                  \/ a = "lower_limit" /\ HasOption(field, "LowerLimit")
                  \/ a = "values" /\ HasOption(field, "Values")
                  \/ a = "increment" /\ HasOption(field, "Increment")
                  \/ a = "equals_value" /\ HasOption(field, "EqualsValue")},
     upper_limit |-> IF HasOption(field, "UpperLimit")
                     THEN Decimal(StrV(field.UpperLimit)).n ELSE 0,
     lower_limit |-> IF HasOption(field, "LowerLimit")
                     THEN Decimal(StrV(field.LowerLimit)).n ELSE 0,
     values |-> IF HasOption(field, "Values") THEN field.Values ELSE <<>>,
     increment |-> IF HasOption(field, "Increment")
                   THEN Decimal(StrV(field.Increment)).n ELSE 0,
     equals_value |-> IF HasOption(field, "EqualsValue")
                      THEN field.EqualsValue ELSE "",
     previous_value |-> NoneV]

hasattr(f, a) == a \in f.attrs

\* The format strings of the messages, in the order of the checks.
MissingFmt ==
    "Field '%s' missing"
EmptyFmt ==
    "Field '%s' empty"
UpperFmt ==
    "Field '%s' value '%d' is greater than upper limit '%d'"
LowerFmt ==
    "Field '%s' value '%d' is less than lower limit '%d'"
ValuesFmt ==
    "Field '%s' value '%s' not in list of known values: [%s]"
EqualsFmt ==
    "Field '%s' value '%s' did not equal expected value '%s'"
SuccessorFmt ==
    "Field '%s' successor value '%d' did not match expected value '%d', increment '%d'"
TimestampFmt ==
    "Field '%s' value could not be parsed as a timestamp, error: %s"


\* The loop with a value that is no mapping read as an absent key.
RECURSIVE GetPathLenient(_, _)
GetPathLenient(value, path_keys) ==
    IF path_keys = <<>>
    THEN Ok(value)
    ELSE GetPathLenient(IF value.t = "dict" /\ Head(path_keys) \in DOMAIN value.d
                        THEN value.d[Head(path_keys)] ELSE NoneV,
                        Tail(path_keys))

\* The loop of Field._get_field_value: value = value.get(key) for each key.
\* dict.get answers None for an absent key; any other value has no get, and
\* the AttributeError is turned into a ValidatorException.
RECURSIVE GetPath(_, _)
GetPath(value, path_keys) ==
    IF path_keys = <<>>
    THEN Ok(value)
    ELSE IF value.t # "dict"
    THEN Raise("ValidatorException")
    ELSE GetPath(IF Head(path_keys) \in DOMAIN value.d
                 THEN value.d[Head(path_keys)] ELSE NoneV,
                 Tail(path_keys))

get_field_value(f, data) == GetPath(data, f.path)

ValidationResult(valid, error) == [valid |-> valid, error |-> error]

\* A formatted message: the format string, the path and the other arguments
\* as formatted. NoError is the empty string.
Msg(fmt, path, args) == [fmt |-> fmt, path |-> path, args |-> args]
NoError == Msg("", <<>>, <<>>)

\* Outcome of a validate call: the exception raised ("" if none), the
\* ValidationResult returned and the Field as the call leaves it.
Returned(f, valid, error) ==
    [exc |-> "", result |-> ValidationResult(valid, error), field |-> f]
Raised(f, e) ==
    [exc |-> e, result |-> ValidationResult(FALSE, NoError), field |-> f]

\* str(field_value) in self.values: list membership by ==, and a str equals
\* only a str.
InValues(x, values) ==
    \E i \in 1..Len(values) : values[i].t = "str" /\ values[i].s = x

\* ', '.join(map(str, values))
RECURSIVE JoinStr(_)
JoinStr(values) ==
    IF values = <<>> THEN ""
    ELSE IF Len(values) = 1 THEN PyStr(Head(values))
    ELSE PyStr(Head(values)) \o ", " \o JoinStr(Tail(values))

\* Lines 79-84 with the timestamp never parsed.
ValidateTimestampSkipped(f, field_value) == Returned(f, TRUE, NoError)

\* Lines 79-84: the timestamp check and the final valid result.
ValidateTimestamp(f, field_value) ==
    IF f.type = TYPE_TIMESTAMP /\ DateutilParse(field_value).exc # ""
    THEN Returned(f, FALSE,
            Msg(TimestampFmt,
                f.path, <<DateutilParse(field_value).err>>))
    ELSE Returned(f, TRUE, NoError)

\* Lines 72-78: the first value to arrive becomes previous_value; afterwards
\* previous_value is assigned only on a mismatch. previous_value + increment
\* raises TypeError when previous_value is a str, and so does
\* '%d' % field_value when field_value is a str.
CheckSuccessor(f, field_value) ==
    IF ~hasattr(f, "previous_value")
    THEN ValidateTimestamp(
            [f EXCEPT !.previous_value = field_value,
                      !.attrs = @ \cup {"previous_value"}],
            field_value)
    ELSE IF f.previous_value.t # "int"
    THEN Raised(f, "TypeError")
    ELSE IF field_value # IntV(f.previous_value.n + f.increment)
    THEN IF field_value.t # "int"
         THEN Raised(f, "TypeError")
         ELSE Returned([f EXCEPT !.previous_value = field_value], FALSE,
                 Msg(SuccessorFmt, f.path,
                     <<StrInt(field_value.n),
                       StrInt(f.previous_value.n + f.increment),
                       StrInt(f.increment)>>))
    ELSE ValidateTimestamp(f, field_value)

\* Line 71 without its hasattr(self, 'increment') guard.
ValidateIncrementUnguarded(f, field_value) == CheckSuccessor(f, field_value)

\* Lines 71-78: the increment check, only for a Field that has an increment.
ValidateIncrement(f, field_value) ==
    IF ~hasattr(f, "increment")
    THEN ValidateTimestamp(f, field_value)
    ELSE CheckSuccessor(f, field_value)

\* Lines 59-70: the stateless checks, in the order of the code.
ValidateValue(f, field_value) ==
    IF field_value.t = "none"
    THEN Returned(f, FALSE, Msg(MissingFmt, f.path, <<>>))
    ELSE IF field_value = StrV("")
    THEN Returned(f, FALSE, Msg(EmptyFmt, f.path, <<>>))
    ELSE IF hasattr(f, "upper_limit") /\ Decimal(field_value).exc # ""
    THEN Raised(f, Decimal(field_value).exc)
    ELSE IF hasattr(f, "upper_limit") /\ Decimal(field_value).n > f.upper_limit
    THEN Returned(f, FALSE,
            Msg(UpperFmt, f.path,
                <<StrInt(Decimal(field_value).n), StrInt(f.upper_limit)>>))
    ELSE IF hasattr(f, "lower_limit") /\ Decimal(field_value).exc # ""
    THEN Raised(f, Decimal(field_value).exc)
    ELSE IF hasattr(f, "lower_limit") /\ Decimal(field_value).n < f.lower_limit
    THEN Returned(f, FALSE,
            Msg(LowerFmt, f.path,
                <<StrInt(Decimal(field_value).n), StrInt(f.lower_limit)>>))
    ELSE IF hasattr(f, "values") /\ ~InValues(PyStr(field_value), f.values)
    THEN Returned(f, FALSE,
            Msg(ValuesFmt, f.path,
                <<PyStr(field_value), JoinStr(f.values)>>))
    ELSE IF hasattr(f, "equals_value") /\ PyStr(field_value) # f.equals_value
    THEN Returned(f, FALSE,
            Msg(EqualsFmt, f.path,
                <<PyStr(field_value), f.equals_value>>))
    ELSE ValidateIncrement(f, field_value)

\* Field.validate(data).
validate(f, data) ==
    LET field_value == get_field_value(f, data) IN
    IF field_value.exc # ""
    THEN Raised(f, field_value.exc)
    ELSE ValidateValue(f, field_value.val)

-----------------------------------------------------------------------------
(* TestCase *)

\* The loop of TestCase._validate from field i on: each Field validates data
\* in field_list order and its result is appended. An exception of a Field
\* ends the loop; the Fields before it keep what their calls assigned.
RECURSIVE ValidateFrom(_, _, _, _)
ValidateFrom(fields, i, data, validations) ==
    IF i > Len(fields)
    THEN [exc |-> "", validations |-> validations, fields |-> fields]
    ELSE LET out == validate(fields[i], data) IN
         IF out.exc # ""
         THEN [exc |-> out.exc, validations |-> validations,
               fields |-> [fields EXCEPT ![i] = out.field]]
         ELSE ValidateFrom([fields EXCEPT ![i] = out.field], i + 1, data,
                           Append(validations,
                                  [Field |-> fields[i].path,
                                   Valid |-> out.result.valid,
                                   Details |-> out.result.error]))

\* _validate with the loop started one Field late.
validate_record_late(fields, data) == ValidateFrom(fields, 2, data, <<>>)

\* TestCase._validate(data)
validate_record(fields, data) == ValidateFrom(fields, 1, data, <<>>)

\* A queued message is a text: json holds whether it is well-formed JSON and
\* doc the value it encodes. json.loads raises on a malformed text.
JsonLoads(msg) ==
    IF msg.json THEN Ok(msg.doc) ELSE Raise("JSONDecodeError")

\* value[key]: KeyError on a dict without the key, TypeError on a value that
\* is no dict.
Subscript(r, key) ==
    IF r.exc # "" THEN r
    ELSE IF r.val.t # "dict" THEN Raise("TypeError")
    ELSE IF key \notin DOMAIN r.val.d THEN Raise("KeyError")
    ELSE Ok(r.val.d[key])

\* str(current_msg['metadata']['serialId']['recordId'])
RecordId(current_msg) ==
    LET r == Subscript(Subscript(Subscript(Ok(current_msg), "metadata"),
                                 "serialId"), "recordId") IN
    IF r.exc # ""
    THEN [exc |-> r.exc, id |-> ""]
    ELSE [exc |-> "", id |-> PyStr(r.val)]

\* The loop body with the Fields restored when a record's validation raises.
ProcessMessageRollback(fields, msg) ==
    LET current_msg == JsonLoads(msg)
        record_id == RecordId(current_msg.val)
        field_validations == validate_record(fields, current_msg.val)
    IN  IF current_msg.exc # ""
        THEN [exc |-> current_msg.exc, report |-> <<>>, fields |-> fields]
        ELSE IF record_id.exc # ""
        THEN [exc |-> record_id.exc, report |-> <<>>, fields |-> fields]
        ELSE IF field_validations.exc # ""
        THEN [exc |-> field_validations.exc, report |-> <<>>,
              fields |-> fields]
        ELSE [exc |-> "",
              report |-> <<[RecordID |-> record_id.id,
                            Validations |-> field_validations.validations]>>,
              fields |-> field_validations.fields]

\* One pass of the body of validate_queue's loop on message msg: what it
\* raises, the report it appends and the Fields as it leaves them.
ProcessMessage(fields, msg) ==
    LET current_msg == JsonLoads(msg)
        record_id == RecordId(current_msg.val)
        field_validations == validate_record(fields, current_msg.val)
    IN  IF current_msg.exc # ""
        THEN [exc |-> current_msg.exc, report |-> <<>>, fields |-> fields]
        ELSE IF record_id.exc # ""
        THEN [exc |-> record_id.exc, report |-> <<>>, fields |-> fields]
        ELSE IF field_validations.exc # ""
        THEN [exc |-> field_validations.exc, report |-> <<>>,
              fields |-> field_validations.fields]
        ELSE [exc |-> "",
              report |-> <<[RecordID |-> record_id.id,
                            Validations |-> field_validations.validations]>>,
              fields |-> field_validations.fields]

-----------------------------------------------------------------------------
(* Configurations and records *)

PathV == <<"payload", "v">>
PathId == <<"metadata", "serialId", "recordId">>

\* Configuration sections (the option mappings Field.__init__ receives).
\* Values is given as the list json.loads yields.
SecInc == [Path |-> PathV, Type |-> TYPE_DECIMAL, Increment |-> "1"]
SecId == [Path |-> PathId, Type |-> TYPE_DECIMAL, Increment |-> "1"]
SecLimits == [Path |-> PathV, Type |-> TYPE_DECIMAL,
              UpperLimit |-> "6", LowerLimit |-> "6"]
SecCrossed == [Path |-> PathV, Type |-> TYPE_DECIMAL,
               UpperLimit |-> "5", LowerLimit |-> "7"]
SecEnum == [Path |-> PathV, Type |-> TYPE_ENUM,
            Values |-> <<StrV("5"), IntV(6), StrV("7")>>, Increment |-> "2"]
SecTime == [Path |-> PathV, Type |-> TYPE_TIMESTAMP]
SecAll == [Path |-> PathV, Type |-> TYPE_TIMESTAMP,
           UpperLimit |-> "7", LowerLimit |-> "5",
           Values |-> <<StrV("6"), StrV("7")>>, EqualsValue |-> "6",
           Increment |-> "1"]
SecEquals == [Path |-> PathV, Type |-> TYPE_STRING, EqualsValue |-> "6"]

\* The Fields the single-Field runs draw from.
FieldMenu ==
    <<FieldInit(SecInc), FieldInit(SecLimits), FieldInit(SecCrossed),
      FieldInit(SecEnum), FieldInit(SecTime), FieldInit(SecAll),
      FieldInit(SecEquals)>>

\* TestCase.__init__: one Field per section, in section order.
RECURSIVE TestCaseInit(_)
TestCaseInit(sections) ==
    IF sections = <<>> THEN <<>>
    ELSE <<FieldInit(Head(sections))>> \o TestCaseInit(Tail(sections))

\* The configuration files the TestCase runs draw from.
ConfigMenu ==
    <<TestCaseInit(<<SecInc>>),
      TestCaseInit(<<SecId, SecLimits>>),
      TestCaseInit(<<SecEnum, SecTime>>),
      TestCaseInit(<<SecInc, SecAll, SecEquals>>)>>

EmptyDict == DictV([k \in {} |-> NoneV])

LeafValues ==
    {IntV(5), IntV(6), IntV(7), StrV(""), StrV("6"), StrV("not-a-date"),
     StrV("2023-01-15T10:00:00Z")}

\* payload: a mapping with or without the key v, or no mapping at all.
Payloads == {DictV([v |-> x]) : x \in LeafValues} \cup {EmptyDict, IntV(3)}

Doc(id, payload) ==
    DictV([metadata |-> DictV([serialId |-> DictV([recordId |-> id])]),
           payload |-> payload])

\* Records handed to Field.validate directly.
Docs == {DictV([payload |-> p]) : p \in Payloads}

\* A serialized record.
Text(doc) == [json |-> TRUE, doc |-> doc]

\* Serialized records a caller queues: well-formed records with an id,
\* records whose payload is no mapping or is absent, one without metadata,
\* and a text that is no JSON.
Messages ==
    {Text(Doc(IntV(1), DictV([v |-> IntV(5)]))),
     Text(Doc(IntV(2), DictV([v |-> IntV(6)]))),
     Text(Doc(IntV(3), DictV([v |-> IntV(7)]))),
     Text(Doc(IntV(2), DictV([v |-> StrV("not-a-date")]))),
     Text(Doc(IntV(1), EmptyDict)),
     Text(Doc(IntV(2), IntV(3))),
     Text(DictV([metadata |-> DictV([serialId |-> DictV([recordId |-> IntV(3)])])])),
     Text(DictV([payload |-> DictV([v |-> IntV(5)])])),
     [json |-> FALSE, doc |-> NoneV]}

-----------------------------------------------------------------------------
(* The TestCase under validate_queue calls *)

NoRet == [kind |-> "none", exc |-> "", Results |-> <<>>]

Init ==
    /\ \E c \in 1..Len(ConfigMenu) : field_list = ConfigMenu[c]
    /\ msg_queue = <<>>
    /\ pc = "idle"
    /\ results = <<>>
    /\ taken = <<>>
    /\ ret = NoRet
    /\ calls = <<>>

\* The caller queues one more serialized record (msg_queue.put).
Put(msg) ==
    /\ pc = "idle"
    /\ Len(msg_queue) < MaxQueue
    /\ msg_queue' = Append(msg_queue, msg)
    /\ ret' = NoRet
    /\ taken' = <<>>
    /\ UNCHANGED <<field_list, pc, results, calls>>

\* validate_queue is called: results = []
Call ==
    /\ pc = "idle"
    /\ pc' = "loop"
    /\ results' = <<>>
    /\ taken' = <<>>
    /\ ret' = NoRet
    /\ UNCHANGED <<field_list, msg_queue, calls>>

\* One pass of the while loop on a non-empty queue: the message is taken
\* and processed; an exception leaves validate_queue at once.
Step ==
    /\ pc = "loop"
    /\ msg_queue # <<>>
    /\ LET out == ProcessMessage(field_list, Head(msg_queue)) IN
        /\ msg_queue' = Tail(msg_queue)
        /\ taken' = Append(taken, Head(msg_queue))
        /\ field_list' = out.fields
        /\ IF out.exc # ""
           THEN /\ pc' = "idle"
                /\ results' = <<>>
                /\ ret' = [kind |-> "raise", exc |-> out.exc, Results |-> <<>>]
           ELSE /\ pc' = "loop"
                /\ results' = results \o out.report
                /\ ret' = ret
    /\ UNCHANGED calls

\* The queue is empty: return {'Results': results}
Return ==
    /\ pc = "loop"
    /\ msg_queue = <<>>
    /\ pc' = "idle"
    /\ ret' = [kind |-> "return", exc |-> "", Results |-> results]
    /\ results' = <<>>
    /\ UNCHANGED <<field_list, msg_queue, taken, calls>>

Next ==
    \/ \E msg \in Messages : Put(msg)
    \/ Call
    \/ Step
    \/ Return

Spec == Init /\ [][Next]_vars

-----------------------------------------------------------------------------
(* One Field under direct validate calls *)

FieldInitState ==
    /\ \E c \in 1..Len(FieldMenu) : field_list = <<FieldMenu[c]>>
    /\ msg_queue = <<>>
    /\ pc = "idle"
    /\ results = <<>>
    /\ taken = <<>>
    /\ ret = NoRet
    /\ calls = <<>>

\* field_list[1].validate(data); the call, its outcome and the Field as the
\* call found it are logged.
ValidateCall(data) ==
    /\ Len(calls) < MaxCalls
    /\ LET out == validate(field_list[1], data) IN
        /\ field_list' = <<out.field>>
        /\ calls' = Append(calls, [data |-> data, exc |-> out.exc,
                                   result |-> out.result,
                                   before |-> field_list[1]])
    /\ UNCHANGED <<msg_queue, pc, results, taken, ret>>

FieldNext == \E data \in Docs : ValidateCall(data)

FieldSpec == FieldInitState /\ [][FieldNext]_vars

-----------------------------------------------------------------------------
(* Properties of Field.validate, over the log of direct calls (FieldSpec) *)

TheField == field_list[1]
HasIncrement == "increment" \in TheField.attrs
NCalls == Len(calls)

\* The Field as call j left it.
After(j) == IF j < NCalls THEN calls[j + 1].before ELSE TheField

\* What the path of the Field leads to in the record of call j.
Extracted(j) == get_field_value(calls[j].before, calls[j].data)
ValueOf(j) == Extracted(j).val
IsInt(j) == Extracted(j).exc = "" /\ ValueOf(j).t = "int"

ReturnedInvalid(c, fmt) ==
    c.exc = "" /\ ~c.result.valid /\ c.result.error.fmt = fmt
ReturnedValid(c) ==
    c.exc = "" /\ c.result.valid /\ c.result.error = NoError

PreFmts == {MissingFmt, EmptyFmt, UpperFmt, LowerFmt, ValuesFmt, EqualsFmt}

\* Call j returned a failure of one of the checks before the increment check.
PreFailed(j) ==
    calls[j].exc = "" /\ ~calls[j].result.valid
        /\ calls[j].result.error.fmt \in PreFmts

\* Call j got as far as the increment check and returned.
ReachedIncrement(j) ==
    calls[j].exc = "" /\ (calls[j].result.valid
                            \/ calls[j].result.error.fmt \in {SuccessorFmt, TimestampFmt})

\* The values of the records so far are integers, each the one before it
\* plus the increment.
IsChain ==
    \A j \in 1..NCalls :
        IsInt(j) /\ (j > 1 => ValueOf(j).n = ValueOf(j - 1).n + TheField.increment)

\* C1: for a Field with an increment, when the values of the records fed to
\* validate are present and each is its predecessor plus the increment, and
\* no record fails another constraint, every call returns a valid result.
C1_ChainIsValid ==
    (HasIncrement /\ IsChain
        /\ \A j \in 1..NCalls :
              ~PreFailed(j) /\ ~ReturnedInvalid(calls[j], TimestampFmt))
    => \A j \in 1..NCalls : ReturnedValid(calls[j])

\* C2: for a Field with an increment and records with integer values that
\* all reach the increment check, every record after the first whose value
\* is not its immediate predecessor's plus the increment is returned
\* invalid, with a message that names the predecessor's value plus the
\* increment as the expected value.
C2_GapsAndDuplicatesDetected ==
    (HasIncrement /\ \A j \in 1..NCalls : IsInt(j) /\ ReachedIncrement(j))
    => \A j \in 2..NCalls :
          ValueOf(j).n # ValueOf(j - 1).n + TheField.increment
          => /\ ReturnedInvalid(calls[j], SuccessorFmt)
             /\ calls[j].result.error.args[2]
                    = StrInt(ValueOf(j - 1).n + TheField.increment)

\* C8: after every call that reaches the increment check of a Field with an
\* increment, whether the check passes or fails, previous_value is the value
\* of the record just evaluated.
C8_PreviousValueIsLastValue ==
    HasIncrement
    => \A j \in 1..NCalls :
          ReachedIncrement(j)
          => /\ "previous_value" \in After(j).attrs
             /\ After(j).previous_value = ValueOf(j)

\* The last call before j that reached the increment check (0 if none did).
LastReachedBefore(j) ==
    IF \E i \in 1..(j - 1) : ReachedIncrement(i)
    THEN CHOOSE i \in 1..(j - 1) :
            ReachedIncrement(i) /\ \A m \in (i + 1)..(j - 1) : ~ReachedIncrement(m)
    ELSE 0

\* A call that fails before the increment check leaves the Field as it was.
PreFailureKeepsField ==
    \A j \in 1..NCalls : PreFailed(j) => After(j) = calls[j].before

\* C9: for a Field with an increment, a call that fails at a check before
\* the increment check leaves previous_value as it was (set or not), and the
\* next record that reaches the increment check is compared with the last
\* record that reached it: it fails the increment check exactly when its
\* value is not that record's value plus the increment, and it passes the
\* increment check as the baseline when no record reached it before.
C9_FailedRecordIsSkipped ==
    HasIncrement
    => /\ PreFailureKeepsField
       /\ \A j \in 2..NCalls :
             (PreFailed(j - 1) /\ ReachedIncrement(j) /\ IsInt(j)
                 /\ (LastReachedBefore(j) # 0 => IsInt(LastReachedBefore(j))))
             => (ReturnedInvalid(calls[j], SuccessorFmt)
                 <=> /\ LastReachedBefore(j) # 0
                     /\ ValueOf(j).n
                          # ValueOf(LastReachedBefore(j)).n + TheField.increment)

\* The checks of validate in their order, each as a condition on the Field
\* as the call finds it and on the extracted value.
CheckFails(n, f, v) ==
    CASE n = 1 -> v.t = "none"
      [] n = 2 -> v.t = "str" /\ v.s = ""
      [] n = 3 -> "upper_limit" \in f.attrs /\ Decimal(v).n > f.upper_limit
      [] n = 4 -> "lower_limit" \in f.attrs /\ Decimal(v).n < f.lower_limit
      [] n = 5 -> "values" \in f.attrs
                    /\ \A i \in 1..Len(f.values) : f.values[i] # StrV(PyStr(v))
      [] n = 6 -> "equals_value" \in f.attrs /\ PyStr(v) # f.equals_value
      [] n = 7 -> "increment" \in f.attrs /\ "previous_value" \in f.attrs
                    /\ v # IntV(f.previous_value.n + f.increment)
      [] n = 8 -> f.type = "timestamp" /\ DateutilParse(v).exc # ""

FailingChecks(j) ==
    {n \in 1..8 : CheckFails(n, calls[j].before, ValueOf(j))}

FirstFailing(j) ==
    CHOOSE n \in FailingChecks(j) : \A m \in FailingChecks(j) : n <= m

CheckFmt ==
    <<MissingFmt, EmptyFmt, UpperFmt, LowerFmt, ValuesFmt, EqualsFmt,
      SuccessorFmt, TimestampFmt>>

\* C4: a call of validate that returns reports the first failing check in
\* the order missing, empty, upper limit, lower limit, values, equals,
\* increment, timestamp; the limit comparisons are strict; missing and empty
\* have distinct messages; and the result is valid with an empty detail
\* exactly when no check fails.
C4_FirstFailingCheckReported ==
    /\ MissingFmt # EmptyFmt
    /\ \A j \in 1..NCalls :
          calls[j].exc = ""
          => IF FailingChecks(j) = {}
             THEN ReturnedValid(calls[j])
             ELSE /\ ReturnedInvalid(calls[j], CheckFmt[FirstFailing(j)])
                  /\ calls[j].result.error # NoError

\* A value equal to both limits was returned valid, and a call in which
\* several checks fail at once was made.
C4_Witness ==
    /\ \E j \in 1..NCalls :
          /\ "upper_limit" \in TheField.attrs
          /\ IsInt(j) /\ ValueOf(j).n = TheField.upper_limit
          /\ ~ReturnedInvalid(calls[j], UpperFmt)
          /\ calls[j].exc = ""
    /\ \E j \in 1..NCalls :
          calls[j].exc = "" /\ Cardinality(FailingChecks(j)) >= 2

\* C7: a Field without an increment has no hidden state: no call changes an
\* attribute of the Field, and two calls with the same record, whatever
\* calls lie between them, have the same outcome.
C7_NoHiddenState ==
    ~HasIncrement
    => /\ \A j \in 1..NCalls : After(j) = calls[j].before
       /\ \A i, j \in 1..NCalls :
             calls[i].data = calls[j].data
             => calls[i].exc = calls[j].exc /\ calls[i].result = calls[j].result

\* The same record was evaluated twice, with calls on other records that
\* returned in between.
C7_Witness ==
    /\ ~HasIncrement
    /\ \E i, j \in 1..NCalls :
          /\ j >= i + 2
          /\ calls[i].data = calls[j].data
          /\ calls[i].exc = "" /\ calls[i].result.valid
          /\ \A m \in (i + 1)..(j - 1) :
                calls[m].data # calls[i].data /\ calls[m].exc = ""

-----------------------------------------------------------------------------
(* Properties of validate_queue (Spec) *)

HasRecordId(doc) ==
    /\ doc.t = "dict" /\ "metadata" \in DOMAIN doc.d
    /\ doc.d.metadata.t = "dict" /\ "serialId" \in DOMAIN doc.d.metadata.d
    /\ doc.d.metadata.d.serialId.t = "dict"
    /\ "recordId" \in DOMAIN doc.d.metadata.d.serialId.d

\* The string form of the record's metadata.serialId.recordId.
IdString(doc) == StrInt(doc.d.metadata.d.serialId.d.recordId.n)

\* C3: when validate_queue returns, its result has one report per record
\* taken from the queue, in the order taken, each with the string form of
\* the record's recordId and one validation per Field, in field_list order,
\* whose 'Field' is that Field's path.
C3_OneReportPerRecord ==
    ret.kind = "return"
    => /\ msg_queue = <<>>
       /\ Len(ret.Results) = Len(taken)
       /\ \A j \in 1..Len(taken) :
             /\ ret.Results[j].RecordID = IdString(taken[j].doc)
             /\ Len(ret.Results[j].Validations) = Len(field_list)
             /\ \A i \in 1..Len(field_list) :
                   ret.Results[j].Validations[i].Field = field_list[i].path

\* A batch of two records with different ids was reported for a TestCase of
\* several Fields.
C3_Witness ==
    /\ ret.kind = "return"
    /\ Len(ret.Results) >= 2
    /\ Len(field_list) >= 2
    /\ ret.Results[1].RecordID # ret.Results[2].RecordID

\* The message deserializes, has a recordId and every Field's path can be
\* traversed in it.
WellFormed(msg) ==
    /\ msg.json
    /\ HasRecordId(msg.doc)
    /\ \A i \in 1..Len(field_list) :
          get_field_value(field_list[i], msg.doc).exc = ""

\* C5: on a queue of records that deserialize, have a recordId and have
\* traversable paths, validate_queue raises nothing, whatever the field
\* values are, and every failed constraint it reports has a non-empty detail.
C5_ConstraintFailuresNeverAbort ==
    /\ ret.kind = "raise" => \E j \in 1..Len(taken) : ~WellFormed(taken[j])
    /\ ret.kind = "return"
       => \A j \in 1..Len(ret.Results) :
             \A i \in 1..Len(ret.Results[j].Validations) :
                ~ret.Results[j].Validations[i].Valid
                => ret.Results[j].Validations[i].Details # NoError

\* The path payload.v of Field f ends at an absent leaf of a mapping ...
LeafMissing(f, doc) ==
    /\ f.path = PathV
    /\ "payload" \in DOMAIN doc.d /\ doc.d.payload.t = "dict"
    /\ "v" \notin DOMAIN doc.d.payload.d

\* ... or cannot be traversed: payload is absent or is no mapping.
Untraversable(f, doc) ==
    /\ f.path = PathV
    /\ "payload" \notin DOMAIN doc.d \/ doc.d.payload.t # "dict"

\* C6: a leaf absent from a mapping makes validate return the 'missing'
\* result and raise nothing; an intermediate value that is no mapping (an
\* absent intermediate key included) makes validate raise a
\* ValidatorException, which leaves validate_queue without any report.
C6_MissingLeafVersusTraversal ==
    [][(pc = "loop" /\ msg_queue # <<>> /\ Head(msg_queue).json
            /\ HasRecordId(Head(msg_queue).doc))
       => LET doc == Head(msg_queue).doc IN
          /\ \A i \in 1..Len(field_list) :
                LeafMissing(field_list[i], doc)
                => validate(field_list[i], doc)
                     = [exc |-> "",
                        result |-> [valid |-> FALSE,
                                    error |-> [fmt |-> MissingFmt,
                                               path |-> field_list[i].path,
                                               args |-> <<>>]],
                        field |-> field_list[i]]
          /\ \A i \in 1..Len(field_list) :
                Untraversable(field_list[i], doc)
                => validate(field_list[i], doc).exc = "ValidatorException"
          /\ (\E i \in 1..Len(field_list) :
                /\ Untraversable(field_list[i], doc)
                /\ \A j \in 1..(i - 1) : validate(field_list[j], doc).exc = "")
             => /\ pc' = "idle"
                /\ results' = <<>>
                /\ ret' = [kind |-> "raise", exc |-> "ValidatorException",
                           Results |-> <<>>]]_vars

\* A batch whose first record lacks the leaf and whose second record has no
\* mapping on the path ended with the ValidatorException.
C6_Witness ==
    /\ ret.kind = "raise" /\ ret.exc = "ValidatorException"
    /\ Len(taken) = 2
    /\ HasRecordId(taken[1].doc) /\ HasRecordId(taken[2].doc)
    /\ \E i \in 1..Len(field_list) : LeafMissing(field_list[i], taken[1].doc)
    /\ \E i \in 1..Len(field_list) : Untraversable(field_list[i], taken[2].doc)

\* The first Field of the list whose validate raises on doc (0 if none).
FirstRaising(doc) ==
    IF \E i \in 1..Len(field_list) : validate(field_list[i], doc).exc # ""
    THEN CHOOSE i \in 1..Len(field_list) :
            /\ validate(field_list[i], doc).exc # ""
            /\ \A j \in 1..(i - 1) : validate(field_list[j], doc).exc = ""
    ELSE 0

\* C10: validate_queue takes each message once and in order; when it returns
\* the queue is empty; when it raises on a record, that record and the ones
\* before it are off the queue and the rest is still queued in order; the
\* Fields keep what the evaluated records assigned and what the Fields before
\* the raising Field assigned for the raising record; and the next
\* validate_queue call starts from these Fields.
C10_QueueAndStateAfterAbort ==
    [][/\ (pc = "loop" /\ msg_queue # <<>>)
          => /\ msg_queue' = Tail(msg_queue)
             /\ taken' = Append(taken, Head(msg_queue))
       /\ (pc = "loop" /\ ret'.kind = "return") => msg_queue' = <<>>
       /\ (pc = "loop" /\ ret'.kind = "raise")
          => /\ pc' = "idle"
             /\ LET msg == Head(msg_queue) IN
                IF ~msg.json \/ ~HasRecordId(msg.doc)
                THEN field_list' = field_list
                ELSE /\ FirstRaising(msg.doc) # 0
                     /\ Len(field_list') = Len(field_list)
                     /\ \A j \in 1..Len(field_list) :
                           field_list'[j] =
                              IF j < FirstRaising(msg.doc)
                              THEN validate(field_list[j], msg.doc).field
                              ELSE field_list[j]
       /\ (pc = "loop" /\ msg_queue # <<>> /\ pc' = "loop")
          => \A j \in 1..Len(field_list) :
                field_list'[j] = validate(field_list[j], Head(msg_queue).doc).field
       /\ pc = "idle" => field_list' = field_list]_vars

\* The first record of a batch raised in the second Field after the first
\* Field took its recordId as baseline, with a message still queued.
C10_Witness ==
    /\ ret.kind = "raise" /\ ret.exc = "ValidatorException"
    /\ taken = <<Text(Doc(IntV(2), IntV(3)))>>
    /\ msg_queue # <<>>
    /\ field_list[1].path = PathId
    /\ "previous_value" \in field_list[1].attrs
    /\ field_list[1].previous_value = IntV(2)

====
